---- MODULE Spec2Model ----
(***************************************************************************)
(* Orders service (src/project/service_orders/main.py) as a state machine. *)
(*                                                                         *)
(* The store is the orders table.  Every handler is cut at its store       *)
(* statements: a step is one SQL statement together with the local code    *)
(* that follows it up to the next statement or the return.  update_order   *)
(* and cancel_order are therefore two steps (SELECT, then UPDATE+commit),  *)
(* get_user_orders is two steps (page query, then count query), and        *)
(* create_order and get_order are one step each.                           *)
(*                                                                         *)
(* Spec    runs create_order, update_order and cancel_order in several     *)
(*         slots at once; their steps interleave freely (several workers   *)
(*         on one database, READ COMMITTED).                               *)
(* SeqSpec runs all five handlers in one worker: a call starts when the    *)
(*         call before it has returned and its response has gone out.      *)
(*                                                                         *)
(* CURRENT_TIMESTAMP is a logical clock that advances on every commit.     *)
(* An absent status (None) and the empty string are both falsy in the      *)
(* source and are both written "".                                         *)
(***************************************************************************)
EXTENDS Integers, Sequences, FiniteSets, TLC

\* ---------------------------------------------------------------- bounds
MaxOrders == 2
MaxCalls == 2
MaxClock == 4
MaxPage == 2
MaxSize == 2

\* ------------------------------------------------------ program constants
ORDER_STATUSES == <<"created", "in_progress", "completed", "cancelled">>

OrderStatus == [CREATED |-> "created", IN_PROGRESS |-> "in_progress",
                COMPLETED |-> "completed", CANCELLED |-> "cancelled"]

VALID_STATUS_TRANSITIONS_skip ==
    [created     |-> <<"in_progress", "cancelled", "completed">>,
     in_progress |-> <<"completed", "cancelled">>,
     completed   |-> <<>>,
     cancelled   |-> <<>>]

VALID_STATUS_TRANSITIONS_no_complete ==
    [created     |-> <<"in_progress", "cancelled">>,
     in_progress |-> <<"cancelled">>,
     completed   |-> <<>>,
     cancelled   |-> <<>>]

VALID_STATUS_TRANSITIONS_reopen ==
    [created     |-> <<"in_progress", "cancelled">>,
     in_progress |-> <<"completed", "cancelled">>,
     completed   |-> <<>>,
     cancelled   |-> <<"created">>]

VALID_STATUS_TRANSITIONS ==
    [created     |-> <<"in_progress", "cancelled">>,
     in_progress |-> <<"completed", "cancelled">>,
     completed   |-> <<>>,
     cancelled   |-> <<>>]

\* ------------------------------------------------------------ input sets
Range(s) == {s[i] : i \in DOMAIN s}

StatusSet == Range(ORDER_STATUSES)

\* what a request may carry as status: a recognized one, an unknown one, none
StatusInputs == StatusSet \cup {"shipped", ""}

\* token payloads {user_id, role}: a client and an administrator; each of
\* them is the owner of the orders it creates and a stranger to the other's
Callers == {[user_id |-> 1, role |-> "client"],
            [user_id |-> 2, role |-> "admin"]}

Calls == 1..MaxCalls
OrderIds == 1..MaxOrders
\* page: Query(1, ge=1); size: Query(10, ge=1, le=100)
Pages == 1..MaxPage
Sizes == 1..MaxSize

\* request bodies: one that passes the validators and two that do not
ItemInputs == {<<[quantity |-> 1, price |-> 0]>>,
               <<[quantity |-> 0, price |-> 0]>>,
               <<[quantity |-> 1, price |-> -1]>>}
TotalInputs == {0, 1}

VARIABLES
    orders,   \* the orders table: order id -> row
    clock,    \* CURRENT_TIMESTAMP
    calls,    \* per slot: the call in flight between two store statements
    last      \* the call that returned in the latest step, with its response

vars == <<orders, clock, calls, last>>

\* ------------------------------------------------------------- responses
\* BaseResponse(success, data, error): data is spread over order_id / orders /
\* total, error is reduced to its stable code.
Response(success, code, order_id, rows, total) ==
    [success |-> success, code |-> code, order_id |-> order_id,
     orders |-> rows, total |-> total]

Ok == Response(TRUE, "", 0, << >>, 0)
Failure(code) == Response(FALSE, code, 0, << >>, 0)
NoResponse == Response(FALSE, "none", 0, << >>, 0)

\* ------------------------------------------------------- pure functions
is_valid_status_transition_selfloop(current_status, new_status) ==
    \/ current_status = new_status
    \/ /\ current_status \in DOMAIN VALID_STATUS_TRANSITIONS
       /\ new_status \in Range(VALID_STATUS_TRANSITIONS[current_status])

is_valid_status_transition(current_status, new_status) ==
    /\ current_status \in DOMAIN VALID_STATUS_TRANSITIONS
    /\ new_status \in Range(VALID_STATUS_TRANSITIONS[current_status])

\* cur.execute("SELECT * FROM orders WHERE id = %s"); cur.fetchone():
\* << >> when there is no row, <<row>> otherwise
SelectOrder(store, order_id) ==
    IF order_id \in DOMAIN store THEN <<store[order_id]>> ELSE << >>

\* uuid.UUID(order[1]) / uuid.UUID(current_user.get('user_id')), current_user.get('role')
IsOwner(row, caller) == row.user_id = caller.user_id
IsAdmin(caller) == caller.role = "admin"

get_order_response_owner_only(found, caller) ==
    IF found = << >> THEN Failure("ORDER_NOT_FOUND")
    ELSE IF ~IsOwner(found[1], caller) THEN Failure("ACCESS_DENIED")
    ELSE Response(TRUE, "", 0, found, 0)

\* get_order after the SELECT
get_order_response(found, caller) ==
    IF found = << >> THEN Failure("ORDER_NOT_FOUND")
    ELSE IF ~IsOwner(found[1], caller) /\ ~IsAdmin(caller) THEN Failure("ACCESS_DENIED")
    ELSE Response(TRUE, "", 0, found, 0)

update_order_validate_no_auth(found, caller, new_status) ==
    IF found = << >> THEN "ORDER_NOT_FOUND"
    ELSE IF new_status = "" THEN "unchanged"
    ELSE IF new_status \notin Range(ORDER_STATUSES) THEN "INVALID_STATUS"
    ELSE IF ~is_valid_status_transition(found[1].status, new_status)
         THEN "INVALID_STATUS_TRANSITION"
    ELSE "write"

update_order_validate_status_first(found, caller, new_status) ==
    IF found = << >> THEN "ORDER_NOT_FOUND"
    ELSE IF new_status # "" /\ new_status \notin Range(ORDER_STATUSES) THEN "INVALID_STATUS"
    ELSE IF ~IsOwner(found[1], caller) /\ ~IsAdmin(caller) THEN "ACCESS_DENIED"
    ELSE IF new_status = "" THEN "unchanged"
    ELSE IF ~is_valid_status_transition(found[1].status, new_status)
         THEN "INVALID_STATUS_TRANSITION"
    ELSE "write"

update_order_validate_transition_first(found, caller, new_status) ==
    IF found = << >> THEN "ORDER_NOT_FOUND"
    ELSE IF ~IsOwner(found[1], caller) /\ ~IsAdmin(caller) THEN "ACCESS_DENIED"
    ELSE IF new_status = "" THEN "unchanged"
    ELSE IF ~is_valid_status_transition(found[1].status, new_status)
         THEN "INVALID_STATUS_TRANSITION"
    ELSE IF new_status \notin Range(ORDER_STATUSES) THEN "INVALID_STATUS"
    ELSE "write"

update_order_validate_empty_invalid(found, caller, new_status) ==
    IF found = << >> THEN "ORDER_NOT_FOUND"
    ELSE IF ~IsOwner(found[1], caller) /\ ~IsAdmin(caller) THEN "ACCESS_DENIED"
    ELSE IF new_status \notin Range(ORDER_STATUSES) THEN "INVALID_STATUS"
    ELSE IF ~is_valid_status_transition(found[1].status, new_status)
         THEN "INVALID_STATUS_TRANSITION"
    ELSE "write"

update_order_validate_idempotent(found, caller, new_status) ==
    IF found = << >> THEN "ORDER_NOT_FOUND"
    ELSE IF ~IsOwner(found[1], caller) /\ ~IsAdmin(caller) THEN "ACCESS_DENIED"
    ELSE IF new_status = "" THEN "unchanged"
    ELSE IF new_status \notin Range(ORDER_STATUSES) THEN "INVALID_STATUS"
    ELSE IF new_status = found[1].status THEN "unchanged"
    ELSE IF ~is_valid_status_transition(found[1].status, new_status)
         THEN "INVALID_STATUS_TRANSITION"
    ELSE "write"

\* update_order between the SELECT and the UPDATE: the error code of the
\* early return, "unchanged" for the success without a write (no status in
\* the request), "write" when the UPDATE is to be executed
update_order_validate(found, caller, new_status) ==
    IF found = << >> THEN "ORDER_NOT_FOUND"
    ELSE IF ~IsOwner(found[1], caller) /\ ~IsAdmin(caller) THEN "ACCESS_DENIED"
    ELSE IF new_status = "" THEN "unchanged"
    ELSE IF new_status \notin Range(ORDER_STATUSES) THEN "INVALID_STATUS"
    ELSE IF ~is_valid_status_transition(found[1].status, new_status)
         THEN "INVALID_STATUS_TRANSITION"
    ELSE "write"

cancel_order_validate_created_only(found, caller) ==
    IF found = << >> THEN "ORDER_NOT_FOUND"
    ELSE IF ~IsOwner(found[1], caller) THEN "ACCESS_DENIED"
    ELSE IF found[1].status # OrderStatus.CREATED THEN "CANNOT_CANCEL"
    ELSE "write"

cancel_order_validate_transition_code(found, caller) ==
    IF found = << >> THEN "ORDER_NOT_FOUND"
    ELSE IF ~IsOwner(found[1], caller) THEN "ACCESS_DENIED"
    ELSE IF ~is_valid_status_transition(found[1].status, OrderStatus.CANCELLED)
         THEN "INVALID_STATUS_TRANSITION"
    ELSE "write"

cancel_order_validate_admin(found, caller) ==
    IF found = << >> THEN "ORDER_NOT_FOUND"
    ELSE IF ~IsOwner(found[1], caller) /\ ~IsAdmin(caller) THEN "ACCESS_DENIED"
    ELSE IF ~is_valid_status_transition(found[1].status, OrderStatus.CANCELLED)
         THEN "CANNOT_CANCEL"
    ELSE "write"

\* cancel_order between the SELECT and the UPDATE
cancel_order_validate(found, caller) ==
    IF found = << >> THEN "ORDER_NOT_FOUND"
    ELSE IF ~IsOwner(found[1], caller) THEN "ACCESS_DENIED"
    ELSE IF ~is_valid_status_transition(found[1].status, OrderStatus.CANCELLED)
         THEN "CANNOT_CANCEL"
    ELSE "write"

\* OrderItem.validate_quantity, OrderItem.validate_price,
\* OrderCreate.validate_total_amount: TRUE when the body is accepted
OrderItemValid(item) == ~(item.quantity <= 0) /\ ~(item.price < 0)
OrderCreateValid(items, total_amount) ==
    /\ \A i \in DOMAIN items : OrderItemValid(items[i])
    /\ ~(total_amount <= 0)

validate_user_exists(user_id) == TRUE

Matches_any_owner(row, caller, status) ==
    status = "" \/ row.status = status

\* ---- get_user_orders: the two queries
\* WHERE clause built from the role and the optional status
Matches(row, caller, status) ==
    /\ IsAdmin(caller) \/ row.user_id = caller.user_id
    /\ status = "" \/ row.status = status

Filtered(store, caller, status) ==
    {store[o] : o \in {x \in DOMAIN store : Matches(store[x], caller, status)}}

\* ORDER BY created_at DESC (created_at values are distinct)
RECURSIVE OrderByCreatedAtDesc(_)
OrderByCreatedAtDesc(rows) ==
    IF rows = {} THEN << >>
    ELSE LET newest == CHOOSE r \in rows : \A q \in rows : q.created_at <= r.created_at
         IN <<newest>> \o OrderByCreatedAtDesc(rows \ {newest})

Min(a, b) == IF a < b THEN a ELSE b

\* LIMIT size OFFSET offset
LimitOffset(seq, size, offset) ==
    IF offset >= Len(seq) THEN << >>
    ELSE SubSeq(seq, offset + 1, Min(offset + size, Len(seq)))

PageQuery_offset_page(store, caller, page, size, status) ==
    LET offset == page * size
    IN LimitOffset(OrderByCreatedAtDesc(Filtered(store, caller, status)), size, offset)

PageQuery(store, caller, page, size, status) ==
    LET offset == (page - 1) * size
    IN LimitOffset(OrderByCreatedAtDesc(Filtered(store, caller, status)), size, offset)

CountQuery(store, caller, status) == Cardinality(Filtered(store, caller, status))

\* ------------------------------------------------------------ call slots
NoCaller == [user_id |-> 0, role |-> ""]

\* a call: its position, its arguments, and the rows its SELECT fetched
Call(pc, op, caller, order_id, status, page, size, found) ==
    [pc |-> pc, op |-> op, caller |-> caller, order_id |-> order_id,
     status |-> status, page |-> page, size |-> size, found |-> found]

Idle == Call("ready", "none", NoCaller, 0, "", 0, 0, << >>)

\* a returned call and the BaseResponse it returned
Returned(call, resp) == [call |-> [call EXCEPT !.pc = "ready"], resp |-> resp]
NoEvent == Returned(Idle, NoResponse)

Ready(c) == calls[c].pc = "ready"
Quiet == \A c \in Calls : Ready(c)

\* commits still to come from calls that passed their checks
PendingWrites == Cardinality({c \in Calls : calls[c].pc \in {"update", "cancel"}})
ClockLeft == clock + PendingWrites < MaxClock

Init ==
    /\ orders = << >>
    /\ clock = 0
    /\ calls = [c \in Calls |-> Idle]
    /\ last = NoEvent

NewOrderId_first(store) == 1

\* str(uuid.uuid4()): an id no stored order has; ids are numbered in the
\* order of creation
NewOrderId(store) == Cardinality(DOMAIN store) + 1

\* INSERT INTO orders (id, user_id, items, total_amount, status); commit
InsertOrder(store, order_id, user_id, items, total_amount, now) ==
    [o \in DOMAIN store \cup {order_id} |->
        IF o = order_id
        THEN [id |-> order_id, user_id |-> user_id, items |-> items,
              total_amount |-> total_amount, status |-> OrderStatus.CREATED,
              created_at |-> now, updated_at |-> now]
        ELSE store[o]]

UpdateStatus_keep_time(store, order_id, new_status, now) ==
    [o \in DOMAIN store |->
        IF o = order_id THEN [store[o] EXCEPT !.status = new_status] ELSE store[o]]

UpdateStatus_total(store, order_id, new_status, now) ==
    [o \in DOMAIN store |->
        IF o = order_id
        THEN [store[o] EXCEPT !.status = new_status, !.updated_at = now,
                              !.total_amount = 0]
        ELSE store[o]]

\* UPDATE orders SET status = %s, updated_at = CURRENT_TIMESTAMP WHERE id = %s; commit
UpdateStatus(store, order_id, new_status, now) ==
    [o \in DOMAIN store |->
        IF o = order_id
        THEN [store[o] EXCEPT !.status = new_status, !.updated_at = now]
        ELSE store[o]]

\* ---------------------------------------------------------------- actions
\* POST /v1/orders
CreateOrder(c, caller, items, total_amount) ==
    /\ Ready(c)
    /\ UNCHANGED calls
    /\ LET call == Call("ready", "create", caller, 0, "", 0, 0, << >>)
       IN IF ~OrderCreateValid(items, total_amount)
          THEN /\ last' = Returned(call, Failure("VALIDATION_ERROR"))
               /\ UNCHANGED <<orders, clock>>
          ELSE IF ~validate_user_exists(caller.user_id)
          THEN /\ last' = Returned(call, Failure("USER_NOT_FOUND"))
               /\ UNCHANGED <<orders, clock>>
          ELSE /\ ClockLeft
               /\ NewOrderId(orders) \in OrderIds
               /\ LET order_id == NewOrderId(orders)
                  IN /\ orders' = InsertOrder(orders, order_id, caller.user_id,
                                              items, total_amount, clock + 1)
                     /\ last' = Returned([call EXCEPT !.order_id = order_id],
                                         Response(TRUE, "", order_id, << >>, 0))
               /\ clock' = clock + 1

GetOrder_touch(c, caller, order_id) ==
    /\ Ready(c)
    /\ LET found == SelectOrder(orders, order_id)
       IN /\ last' = Returned(Call("ready", "get", caller, order_id, "", 0, 0, found),
                              get_order_response(found, caller))
          /\ orders' = IF found = << >> THEN orders
                       ELSE [orders EXCEPT ![order_id].updated_at = clock]
    /\ UNCHANGED <<clock, calls>>

\* GET /v1/orders/{order_id}
GetOrder(c, caller, order_id) ==
    /\ Ready(c)
    /\ LET found == SelectOrder(orders, order_id)
       IN last' = Returned(Call("ready", "get", caller, order_id, "", 0, 0, found),
                           get_order_response(found, caller))
    /\ UNCHANGED <<orders, clock, calls>>

\* GET /v1/orders: the page query
ListOrdersPage(c, caller, page, size, status) ==
    /\ Ready(c)
    /\ calls' = [calls EXCEPT ![c] =
           Call("count", "list", caller, 0, status, page, size,
                PageQuery(orders, caller, page, size, status))]
    /\ last' = NoEvent
    /\ UNCHANGED <<orders, clock>>

\* GET /v1/orders: the count query and the response
ListOrdersCount(c) ==
    /\ calls[c].pc = "count"
    /\ last' = Returned(calls[c], Response(TRUE, "", 0, calls[c].found,
                   CountQuery(orders, calls[c].caller, calls[c].status)))
    /\ calls' = [calls EXCEPT ![c] = Idle]
    /\ UNCHANGED <<orders, clock>>

\* PUT /v1/orders/{order_id}: the SELECT and the checks
UpdateOrderSelect(c, caller, order_id, new_status) ==
    /\ Ready(c)
    /\ LET found == SelectOrder(orders, order_id)
           verdict == update_order_validate(found, caller, new_status)
           call == Call("update", "update", caller, order_id, new_status, 0, 0, found)
       IN IF verdict = "write"
          THEN /\ ClockLeft
               /\ calls' = [calls EXCEPT ![c] = call]
               /\ last' = NoEvent
          ELSE /\ last' = Returned(call, IF verdict = "unchanged" THEN Ok
                                         ELSE Failure(verdict))
               /\ UNCHANGED calls
    /\ UNCHANGED <<orders, clock>>

\* PUT /v1/orders/{order_id}: the UPDATE, the commit and the response
UpdateOrderWrite(c) ==
    /\ calls[c].pc = "update"
    /\ orders' = UpdateStatus(orders, calls[c].order_id, calls[c].status, clock + 1)
    /\ clock' = clock + 1
    /\ last' = Returned(calls[c], Ok)
    /\ calls' = [calls EXCEPT ![c] = Idle]

\* DELETE /v1/orders/{order_id}: the SELECT and the checks
CancelOrderSelect(c, caller, order_id) ==
    /\ Ready(c)
    /\ LET found == SelectOrder(orders, order_id)
           verdict == cancel_order_validate(found, caller)
           call == Call("cancel", "cancel", caller, order_id, "", 0, 0, found)
       IN IF verdict = "write"
          THEN /\ ClockLeft
               /\ calls' = [calls EXCEPT ![c] = call]
               /\ last' = NoEvent
          ELSE /\ last' = Returned(call, Failure(verdict))
               /\ UNCHANGED calls
    /\ UNCHANGED <<orders, clock>>

CancelOrderWrite_delete(c) ==
    /\ calls[c].pc = "cancel"
    /\ orders' = [o \in DOMAIN orders \ {calls[c].order_id} |-> orders[o]]
    /\ clock' = clock + 1
    /\ last' = Returned(calls[c], Ok)
    /\ calls' = [calls EXCEPT ![c] = Idle]

\* DELETE /v1/orders/{order_id}: the UPDATE, the commit and the response
CancelOrderWrite(c) ==
    /\ calls[c].pc = "cancel"
    /\ orders' = UpdateStatus(orders, calls[c].order_id, OrderStatus.CANCELLED, clock + 1)
    /\ clock' = clock + 1
    /\ last' = Returned(calls[c], Ok)
    /\ calls' = [calls EXCEPT ![c] = Idle]

\* --------------------------------------------------------- store failures
\* how a call of the store fails: the statement is refused and the
\* connection stays usable, or the connection is lost
StoreFaults == {"refused", "lost"}

\* a call that left through its except branch; pc keeps the store call that
\* raised: "connect" (get_db), "read" (SELECT), "write" (INSERT, UPDATE),
\* "commit"
Raised(call, step, resp) == [call |-> [call EXCEPT !.pc = step], resp |-> resp]

\* an exception that leaves the handler: the caller gets HTTP 500 and no
\* BaseResponse
InternalServerError == Response(FALSE, "INTERNAL_SERVER_ERROR", 0, << >>, 0)

\* except Exception in create_order, update_order and cancel_order:
\*     if conn: conn.rollback()
\*     return BaseResponse(success=False, error={"code": "DATABASE_ERROR"})
\* conn is None when get_db() raised.  On a lost connection rollback()
\* raises in its turn (psycopg2.InterfaceError: connection already closed);
\* it is called inside the except block, so nothing catches it.
except_rollback(step, fault) ==
    IF step = "connect" THEN Failure("DATABASE_ERROR")
    ELSE IF fault = "lost" THEN InternalServerError
    ELSE Failure("DATABASE_ERROR")

\* except Exception in get_order and get_user_orders: no rollback
except_return == Failure("DATABASE_ERROR")

\* create_order: get_db, the INSERT or the commit raises; the row of the
\* open transaction is never committed
CreateOrderFails(c, caller, items, total_amount, step, fault) ==
    /\ Ready(c)
    /\ OrderCreateValid(items, total_amount)
    /\ step \in {"connect", "write", "commit"}
    /\ last' = Raised(Call("ready", "create", caller, 0, "", 0, 0, << >>), step,
                      except_rollback(step, fault))
    /\ UNCHANGED <<orders, clock, calls>>

\* get_order: get_db or the SELECT raises
GetOrderFails(c, caller, order_id, step) ==
    /\ Ready(c)
    /\ step \in {"connect", "read"}
    /\ last' = Raised(Call("ready", "get", caller, order_id, "", 0, 0, << >>), step,
                      except_return)
    /\ UNCHANGED <<orders, clock, calls>>

\* get_user_orders: get_db or the page query raises
ListOrdersPageFails(c, caller, page, size, status, step) ==
    /\ Ready(c)
    /\ step \in {"connect", "read"}
    /\ last' = Raised(Call("ready", "list", caller, 0, status, page, size, << >>), step,
                      except_return)
    /\ UNCHANGED <<orders, clock, calls>>

\* get_user_orders: the count query raises
ListOrdersCountFails(c) ==
    /\ calls[c].pc = "count"
    /\ last' = Raised(calls[c], "read", except_return)
    /\ calls' = [calls EXCEPT ![c] = Idle]
    /\ UNCHANGED <<orders, clock>>

\* update_order: get_db or the SELECT raises
UpdateOrderSelectFails(c, caller, order_id, new_status, step, fault) ==
    /\ Ready(c)
    /\ step \in {"connect", "read"}
    /\ last' = Raised(Call("ready", "update", caller, order_id, new_status, 0, 0, << >>),
                      step, except_rollback(step, fault))
    /\ UNCHANGED <<orders, clock, calls>>

\* update_order: the UPDATE or the commit raises; the new status of the open
\* transaction is never committed
UpdateOrderWriteFails(c, step, fault) ==
    /\ calls[c].pc = "update"
    /\ step \in {"write", "commit"}
    /\ last' = Raised(calls[c], step, except_rollback(step, fault))
    /\ calls' = [calls EXCEPT ![c] = Idle]
    /\ UNCHANGED <<orders, clock>>

\* cancel_order: get_db or the SELECT raises
CancelOrderSelectFails(c, caller, order_id, step, fault) ==
    /\ Ready(c)
    /\ step \in {"connect", "read"}
    /\ last' = Raised(Call("ready", "cancel", caller, order_id, "", 0, 0, << >>),
                      step, except_rollback(step, fault))
    /\ UNCHANGED <<orders, clock, calls>>

\* cancel_order: the UPDATE or the commit raises
CancelOrderWriteFails(c, step, fault) ==
    /\ calls[c].pc = "cancel"
    /\ step \in {"write", "commit"}
    /\ last' = Raised(calls[c], step, except_rollback(step, fault))
    /\ calls' = [calls EXCEPT ![c] = Idle]
    /\ UNCHANGED <<orders, clock>>

\* ---------------------------------------------------------- specifications
\* one worker: a call starts when the call before it has returned and its
\* response has gone out
Worker == 1

\* the response of the call that just returned goes out (the finally block
\* closes cursor and connection)
SendResponse ==
    /\ last # NoEvent
    /\ last' = NoEvent
    /\ UNCHANGED <<orders, clock, calls>>

Sent == last = NoEvent

SeqNext ==
    \/ \E caller \in Callers, items \in ItemInputs, t \in TotalInputs :
          Sent /\ CreateOrder(Worker, caller, items, t)
    \/ \E caller \in Callers, o \in OrderIds :
          Sent /\ GetOrder(Worker, caller, o)
    \/ \E caller \in Callers, p \in Pages, s \in Sizes, st \in StatusInputs :
          Sent /\ ListOrdersPage(Worker, caller, p, s, st)
    \/ ListOrdersCount(Worker)
    \/ \E caller \in Callers, o \in OrderIds, st \in StatusInputs :
          Sent /\ UpdateOrderSelect(Worker, caller, o, st)
    \/ UpdateOrderWrite(Worker)
    \/ \E caller \in Callers, o \in OrderIds :
          Sent /\ CancelOrderSelect(Worker, caller, o)
    \/ CancelOrderWrite(Worker)
    \/ SendResponse

SeqSpec == Init /\ [][SeqNext]_vars

\* one worker on a store whose calls may fail
FaultNext ==
    \/ SeqNext
    \/ \E caller \in Callers, items \in ItemInputs, t \in TotalInputs,
          step \in {"connect", "write", "commit"}, fault \in StoreFaults :
          Sent /\ CreateOrderFails(Worker, caller, items, t, step, fault)
    \/ \E caller \in Callers, o \in OrderIds, step \in {"connect", "read"} :
          Sent /\ GetOrderFails(Worker, caller, o, step)
    \/ \E caller \in Callers, p \in Pages, s \in Sizes, st \in StatusInputs,
          step \in {"connect", "read"} :
          Sent /\ ListOrdersPageFails(Worker, caller, p, s, st, step)
    \/ ListOrdersCountFails(Worker)
    \/ \E caller \in Callers, o \in OrderIds, st \in StatusInputs,
          step \in {"connect", "read"}, fault \in StoreFaults :
          Sent /\ UpdateOrderSelectFails(Worker, caller, o, st, step, fault)
    \/ \E step \in {"write", "commit"}, fault \in StoreFaults :
          UpdateOrderWriteFails(Worker, step, fault)
    \/ \E caller \in Callers, o \in OrderIds,
          step \in {"connect", "read"}, fault \in StoreFaults :
          Sent /\ CancelOrderSelectFails(Worker, caller, o, step, fault)
    \/ \E step \in {"write", "commit"}, fault \in StoreFaults :
          CancelOrderWriteFails(Worker, step, fault)

FaultSpec == Init /\ [][FaultNext]_vars

\* one worker running create_order, get_order, update_order and cancel_order
\* on a store whose calls may fail
WriteFaultNext ==
    \/ \E caller \in Callers, items \in ItemInputs, t \in TotalInputs :
          Sent /\ CreateOrder(Worker, caller, items, t)
    \/ \E caller \in Callers, o \in OrderIds :
          Sent /\ GetOrder(Worker, caller, o)
    \/ \E caller \in Callers, o \in OrderIds, st \in StatusInputs :
          Sent /\ UpdateOrderSelect(Worker, caller, o, st)
    \/ UpdateOrderWrite(Worker)
    \/ \E caller \in Callers, o \in OrderIds :
          Sent /\ CancelOrderSelect(Worker, caller, o)
    \/ CancelOrderWrite(Worker)
    \/ \E caller \in Callers, items \in ItemInputs, t \in TotalInputs,
          step \in {"connect", "write", "commit"}, fault \in StoreFaults :
          Sent /\ CreateOrderFails(Worker, caller, items, t, step, fault)
    \/ \E caller \in Callers, o \in OrderIds, step \in {"connect", "read"} :
          Sent /\ GetOrderFails(Worker, caller, o, step)
    \/ \E caller \in Callers, o \in OrderIds, st \in StatusInputs,
          step \in {"connect", "read"}, fault \in StoreFaults :
          Sent /\ UpdateOrderSelectFails(Worker, caller, o, st, step, fault)
    \/ \E step \in {"write", "commit"}, fault \in StoreFaults :
          UpdateOrderWriteFails(Worker, step, fault)
    \/ \E caller \in Callers, o \in OrderIds,
          step \in {"connect", "read"}, fault \in StoreFaults :
          Sent /\ CancelOrderSelectFails(Worker, caller, o, step, fault)
    \/ \E step \in {"write", "commit"}, fault \in StoreFaults :
          CancelOrderWriteFails(Worker, step, fault)
    \/ SendResponse

WriteFaultSpec == Init /\ [][WriteFaultNext]_vars

\* one worker running all five handlers on a store whose reads may fail
ReadFaultNext ==
    \/ SeqNext
    \/ \E caller \in Callers, o \in OrderIds, step \in {"connect", "read"} :
          Sent /\ GetOrderFails(Worker, caller, o, step)
    \/ \E caller \in Callers, p \in Pages, s \in Sizes, st \in StatusInputs,
          step \in {"connect", "read"} :
          Sent /\ ListOrdersPageFails(Worker, caller, p, s, st, step)
    \/ ListOrdersCountFails(Worker)

ReadFaultSpec == Init /\ [][ReadFaultNext]_vars

\* bodies of POST /v1/orders with no item, one item and two items
OrderBodies ==
    {<< >>,
     <<[quantity |-> 1, price |-> 0]>>,
     <<[quantity |-> 2, price |-> 1], [quantity |-> 1, price |-> 0]>>,
     <<[quantity |-> 1, price |-> 0], [quantity |-> 0, price |-> 0]>>,
     <<[quantity |-> 1, price |-> -1]>>}

\* create_order over these bodies, and get_order on what it stored
BodyNext ==
    \/ \E caller \in Callers, items \in OrderBodies, t \in TotalInputs :
          Sent /\ CreateOrder(Worker, caller, items, t)
    \/ \E caller \in Callers, o \in OrderIds :
          Sent /\ GetOrder(Worker, caller, o)
    \/ SendResponse

BodySpec == Init /\ [][BodyNext]_vars

\* status changes of concurrent calls, interleaved at their store statements
Next ==
    \/ \E c \in Calls, caller \in Callers, items \in ItemInputs, t \in TotalInputs :
          CreateOrder(c, caller, items, t)
    \/ \E c \in Calls, caller \in Callers, o \in OrderIds, st \in StatusInputs :
          UpdateOrderSelect(c, caller, o, st)
    \/ \E c \in Calls : UpdateOrderWrite(c)
    \/ \E c \in Calls, caller \in Callers, o \in OrderIds : CancelOrderSelect(c, caller, o)
    \/ \E c \in Calls : CancelOrderWrite(c)

Spec == Init /\ [][Next]_vars

\* ================================================================= claims
\* the transition table as the specification states it
TransitionTable == {<<"created", "in_progress">>, <<"created", "cancelled">>,
                    <<"in_progress", "completed">>, <<"in_progress", "cancelled">>}
Terminal == {"completed", "cancelled"}

\* a call of the operation op returned in the step that led to this state
ReturnedOp(e, op) == e # NoEvent /\ e.call.op = op
Authorized(row, caller) == row.user_id = caller.user_id \/ caller.role = "admin"

\* C1: for every pair (current status, requested status) of recognized
\* statuses outside the transition table, self-transitions included,
\* UpdateOrderStatus by the owner or an admin returns
\* INVALID_STATUS_TRANSITION and the store is left as it was.
C1_InvalidTransitionRejected ==
    [][ReturnedOp(last', "update") =>
          LET o == last'.call.order_id
              t == last'.call.status
          IN (/\ o \in DOMAIN orders
              /\ Authorized(orders[o], last'.call.caller)
              /\ t \in StatusSet
              /\ <<orders[o].status, t>> \notin TransitionTable)
             => /\ last'.resp = Failure("INVALID_STATUS_TRANSITION")
                /\ orders' = orders]_vars

\* C1 witness: a self-transition requested by the owner has been rejected
C1_Witness ==
    /\ ReturnedOp(last, "update")
    /\ last.resp.code = "INVALID_STATUS_TRANSITION"
    /\ last.call.order_id \in DOMAIN orders
    /\ last.call.caller.user_id = orders[last.call.order_id].user_id
    /\ last.call.status = orders[last.call.order_id].status

C3_CancelOwnerOnly ==
    [][ReturnedOp(last', "cancel") =>
          LET o == last'.call.order_id
              caller == last'.call.caller
          IN /\ last'.resp.success
                => /\ o \in DOMAIN orders
                   /\ orders[o].status \in {"created", "in_progress"}
                   /\ caller.user_id = orders[o].user_id
             /\ (/\ o \in DOMAIN orders
                 /\ caller.role = "admin"
                 /\ caller.user_id # orders[o].user_id)
                => /\ last'.resp = Failure("ACCESS_DENIED")
                   /\ orders' = orders
                   /\ get_order_response(SelectOrder(orders, o), caller).success]_vars

\* C3 witness: an admin was refused the cancellation of another user's
\* order that was still open
C3_Witness ==
    /\ ReturnedOp(last, "cancel")
    /\ last.resp.code = "ACCESS_DENIED"
    /\ last.call.caller.role = "admin"
    /\ last.call.order_id \in DOMAIN orders
    /\ orders[last.call.order_id].user_id # last.call.caller.user_id
    /\ orders[last.call.order_id].status = "in_progress"

\* C4: of two concurrent CancelOrder calls by the owner on an order in
\* in_progress exactly one returns success, the other returns CANNOT_CANCEL
\* or INVALID_STATUS_TRANSITION, and the order ends cancelled: a CancelOrder
\* of the owner that returns right after a successful CancelOrder of the
\* same order, which the first call found in in_progress, is a failure
\* with one of these two codes.
C4_ExactlyOneCancelSucceeds ==
    [][(/\ ReturnedOp(last, "cancel")
        /\ last.resp.success
        /\ last.call.found[1].status = "in_progress"
        /\ ReturnedOp(last', "cancel")
        /\ last'.call.order_id = last.call.order_id
        /\ last'.call.caller = last.call.caller)
       => /\ ~last'.resp.success
          /\ last'.resp.code \in {"CANNOT_CANCEL", "INVALID_STATUS_TRANSITION"}
          /\ orders'[last'.call.order_id].status = "cancelled"]_vars

\* C5: read-validate-write is atomic under every interleaving: every change
\* of a stored status follows the transition table, and a row whose status
\* is completed or cancelled is never written again.
C5_AtomicTransitions ==
    [][\A o \in DOMAIN orders :
          /\ orders'[o].status # orders[o].status
             => <<orders[o].status, orders'[o].status>> \in TransitionTable
          /\ orders[o].status \in Terminal => orders'[o] = orders[o]]_vars

\* C6: UpdateOrderStatus on an existing order changes the store only for
\* the owner or an admin; any other caller gets ACCESS_DENIED and the store
\* is left as it was.
C6_UpdateOwnerOrAdmin ==
    [][ReturnedOp(last', "update") =>
          LET o == last'.call.order_id
              caller == last'.call.caller
          IN o \in DOMAIN orders
             => IF caller.user_id = orders[o].user_id \/ caller.role = "admin"
                THEN TRUE
                ELSE /\ last'.resp = Failure("ACCESS_DENIED")
                     /\ orders' = orders]_vars

\* C6 witness: a client was refused a transition on another user's order
\* that the table allows
C6_Witness ==
    /\ ReturnedOp(last, "update")
    /\ last.resp.code = "ACCESS_DENIED"
    /\ last.call.order_id \in DOMAIN orders
    /\ <<orders[last.call.order_id].status, last.call.status>> \in TransitionTable

\* C7: GetOrder returns ORDER_NOT_FOUND when no row has the id; for an
\* existing order it returns the row exactly when the caller is the owner
\* or an admin, and ACCESS_DENIED otherwise.
C7_GetOrder ==
    ReturnedOp(last, "get") =>
        LET o == last.call.order_id
            caller == last.call.caller
        IN IF o \notin DOMAIN orders
           THEN last.resp = Failure("ORDER_NOT_FOUND")
           ELSE IF caller.user_id = orders[o].user_id \/ caller.role = "admin"
           THEN last.resp.success /\ last.resp.orders = <<orders[o]>>
           ELSE last.resp = Failure("ACCESS_DENIED")

\* C7 witness: an admin has read another user's order
C7_Witness ==
    /\ ReturnedOp(last, "get")
    /\ last.resp.success
    /\ last.call.caller.role = "admin"
    /\ last.resp.orders[1].user_id # last.call.caller.user_id

\* C8: every order that ListOrders returns to a caller who is not an admin
\* belongs to that caller.
C8_ListOwnOrdersOnly ==
    (ReturnedOp(last, "list") /\ last.call.caller.role # "admin")
    => \A i \in DOMAIN last.resp.orders :
          last.resp.orders[i].user_id = last.call.caller.user_id

\* C8 witness: a client got a non-empty listing while the store holds an
\* order of another user that passes the status filter
C8_Witness ==
    /\ ReturnedOp(last, "list")
    /\ last.call.caller.role # "admin"
    /\ last.resp.orders # << >>
    /\ \E o \in DOMAIN orders :
          /\ orders[o].user_id # last.call.caller.user_id
          /\ last.call.status \in {"", orders[o].status}

\* the filtered set of a listing, as the specification states it
FilteredSet(caller, status) ==
    {r \in {orders[o] : o \in DOMAIN orders} :
        /\ caller.role = "admin" \/ r.user_id = caller.user_id
        /\ status = "" \/ r.status = status}

\* C9: the page p of size s holds exactly the elements at positions
\* (p-1)*s+1 .. p*s of the filtered set in descending order of created_at,
\* and total is the size of the whole filtered set.
C9_Pagination ==
    ReturnedOp(last, "list") =>
        LET F == FilteredSet(last.call.caller, last.call.status)
            first == (last.call.page - 1) * last.call.size
            rest == Cardinality(F) - first
            page == last.resp.orders
        IN /\ last.resp.success
           /\ last.resp.total = Cardinality(F)
           /\ Len(page) = IF rest <= 0 THEN 0
                          ELSE IF rest < last.call.size THEN rest
                          ELSE last.call.size
           /\ \A i \in DOMAIN page :
                 /\ page[i] \in F
                 /\ Cardinality({q \in F : q.created_at > page[i].created_at})
                       = first + i - 1

\* C9 witness: a second page of size 1 holding the older of two orders
C9_Witness ==
    /\ ReturnedOp(last, "list")
    /\ last.call.page = 2
    /\ last.call.size = 1
    /\ last.resp.total = 2
    /\ Len(last.resp.orders) = 1

\* C10: authorization comes before validation: to a caller who is neither
\* owner nor admin UpdateOrderStatus on an existing order answers
\* ACCESS_DENIED whatever the current and the requested status are, and
\* CancelOrder answers every caller but the owner with ACCESS_DENIED
\* whatever the current status is.
C10_AuthorizationFirst ==
    /\ ReturnedOp(last, "update")
       => LET o == last.call.order_id
              caller == last.call.caller
          IN (/\ o \in DOMAIN orders
              /\ caller.user_id # orders[o].user_id
              /\ caller.role # "admin")
             => last.resp = Failure("ACCESS_DENIED")
    /\ ReturnedOp(last, "cancel")
       => LET o == last.call.order_id
              caller == last.call.caller
          IN (o \in DOMAIN orders /\ caller.user_id # orders[o].user_id)
             => last.resp = Failure("ACCESS_DENIED")

\* C10 witness: a client asked for an unrecognized status on another
\* user's terminal order and was told ACCESS_DENIED
C10_Witness ==
    /\ ReturnedOp(last, "update")
    /\ last.resp = Failure("ACCESS_DENIED")
    /\ last.call.status \notin StatusSet \cup {""}
    /\ last.call.order_id \in DOMAIN orders
    /\ orders[last.call.order_id].status \in Terminal

\* C11: a successful CreateOrder adds exactly one order; its id differs
\* from the id of every order stored before, its owner is the caller and
\* its status is created; every order stored before is unchanged.
C11_CreateAddsOneOrder ==
    [][(ReturnedOp(last', "create") /\ last'.resp.success) =>
          LET id == last'.resp.order_id
          IN /\ \A o \in DOMAIN orders : o # id /\ orders[o].id # id
             /\ DOMAIN orders' = DOMAIN orders \cup {id}
             /\ orders'[id].id = id
             /\ orders'[id].user_id = last'.call.caller.user_id
             /\ orders'[id].status = "created"
             /\ \A o \in DOMAIN orders : orders'[o] = orders[o]]_vars

\* C11 witness: a second order has been created for another caller than
\* the owner of the first, whose status had already moved on
C11_Witness ==
    /\ ReturnedOp(last, "create")
    /\ last.resp.success
    /\ last.resp.order_id = 2
    /\ DOMAIN orders = {1, 2}
    /\ orders[1].status = "in_progress"
    /\ orders[1].user_id # orders[2].user_id

\* the bodies that the specification's preconditions of CreateOrder exclude
RejectedBody(items, total_amount) ==
    \/ items = << >>
    \/ \E i \in DOMAIN items : items[i].quantity <= 0
    \/ \E i \in DOMAIN items : items[i].price < 0
    \/ total_amount <= 0

\* C12: CreateOrder rejects with a validation error, and stores nothing,
\* whenever the items list is empty, some item has quantity <= 0, some
\* item has price < 0, or total_amount <= 0.
C12_InvalidBodyRejected ==
    [][\A caller \in Callers, items \in OrderBodies, t \in TotalInputs :
          (RejectedBody(items, t) /\ CreateOrder(Worker, caller, items, t))
          => /\ last'.resp = Failure("VALIDATION_ERROR")
             /\ orders' = orders]_vars

\* the call behind the event left through its except branch
StoreFailed(e) == e # NoEvent /\ e.call.pc # "ready"

\* C13: when the store fails at any step of CreateOrder, UpdateOrderStatus
\* or CancelOrder (connection, read, write or commit), the call returns
\* DATABASE_ERROR and the store content is the same as before the call.
C13_StoreFailureRolledBack ==
    [][(StoreFailed(last') /\ last'.call.op \in {"create", "update", "cancel"})
       => /\ last'.resp = Failure("DATABASE_ERROR")
          /\ orders' = orders]_vars

\* the stable error codes of the specification
ErrorCodes == {"USER_NOT_FOUND", "ORDER_NOT_FOUND", "ACCESS_DENIED", "INVALID_STATUS",
               "INVALID_STATUS_TRANSITION", "CANNOT_CANCEL", "DATABASE_ERROR"}

\* C14: the engine is total: every call of CreateOrder, GetOrder,
\* ListOrders, UpdateOrderStatus and CancelOrder by an authenticated caller
\* returns a success response or a failure response with one of the seven
\* stable codes, and DATABASE_ERROR only when the store failed.  A call of
\* the engine is a request that passed the schema validation in front of
\* it.
C14_Total ==
    (last # NoEvent /\ last.resp.code # "VALIDATION_ERROR")
    => /\ last.resp.success \/ last.resp.code \in ErrorCodes
       /\ last.resp.code = "DATABASE_ERROR" => StoreFailed(last)

\* C15: UpdateOrderStatus is not idempotent: after a successful update to a
\* target status the stored status is the target and the same call, applied
\* to the store as the update left it, is answered
\* INVALID_STATUS_TRANSITION; and every update by the owner or an admin
\* that asks for the status the order already has returns
\* INVALID_STATUS_TRANSITION and leaves the store as it was, so the status
\* stays the target.
C15_NotIdempotent ==
    [][ReturnedOp(last', "update") =>
          LET o == last'.call.order_id
              t == last'.call.status
              caller == last'.call.caller
          IN /\ (last'.resp.success /\ t # "")
                => /\ orders'[o].status = t
                   /\ update_order_validate(SelectOrder(orders', o), caller, t)
                         = "INVALID_STATUS_TRANSITION"
             /\ (/\ o \in DOMAIN orders
                 /\ Authorized(orders[o], caller)
                 /\ t # ""
                 /\ t = orders[o].status)
                => /\ last'.resp = Failure("INVALID_STATUS_TRANSITION")
                   /\ orders' = orders]_vars

\* C15 witness: an order was moved to in_progress, nothing was committed
\* since, and an update to in_progress has now failed
C15_Witness ==
    /\ ReturnedOp(last, "update")
    /\ last.resp = Failure("INVALID_STATUS_TRANSITION")
    /\ last.call.status = "in_progress"
    /\ last.call.order_id \in DOMAIN orders
    /\ orders[last.call.order_id].status = "in_progress"
    /\ orders[last.call.order_id].updated_at = clock
    /\ orders[last.call.order_id].updated_at > orders[last.call.order_id].created_at

\* C16: after an order is created, its id, owner id, items and
\* total_amount have the same values in every later state, whatever calls
\* follow, successful or failed: no step removes an order or changes one of
\* these four fields.
C16_WriteOnceFields ==
    [][\A o \in DOMAIN orders :
          /\ o \in DOMAIN orders'
          /\ orders'[o].id = orders[o].id
          /\ orders'[o].user_id = orders[o].user_id
          /\ orders'[o].items = orders[o].items
          /\ orders'[o].total_amount = orders[o].total_amount]_vars

\* C16 witness: an order whose status was changed twice, the second time by
\* a cancellation that has just returned, while a younger order exists
C16_Witness ==
    /\ ReturnedOp(last, "cancel")
    /\ last.resp.success
    /\ DOMAIN orders = {1, 2}
    /\ last.call.order_id = 1
    /\ orders[1].updated_at > orders[2].created_at
    /\ orders[2].created_at > orders[1].created_at + 1
    /\ orders[1].total_amount > 0

\* C17: for every pair (current status, requested status) of the transition
\* table, UpdateOrderStatus called by the owner or by an admin on an order
\* in the current status succeeds, and afterwards the stored status is the
\* requested one.
C17_TablePairsSucceed ==
    [][ReturnedOp(last', "update") =>
          LET o == last'.call.order_id
              t == last'.call.status
          IN (/\ o \in DOMAIN orders
              /\ Authorized(orders[o], last'.call.caller)
              /\ <<orders[o].status, t>> \in TransitionTable)
             => /\ last'.resp.success
                /\ orders'[o].status = t]_vars

\* C17 witness: an admin has completed another user's order
C17_Witness ==
    /\ ReturnedOp(last, "update")
    /\ last.resp.success
    /\ last.call.status = "completed"
    /\ last.call.caller.role = "admin"
    /\ last.call.found[1].status = "in_progress"
    /\ orders[last.call.order_id].user_id # last.call.caller.user_id
    /\ orders[last.call.order_id].status = "completed"

\* C18 as stated: the checks of UpdateOrderStatus apply in a fixed
\* precedence: ORDER_NOT_FOUND when the order is absent, else ACCESS_DENIED
\* when the caller is neither owner nor admin, else INVALID_STATUS when the
\* requested status is not one of created, in_progress, completed,
\* cancelled, else INVALID_STATUS_TRANSITION when the pair is not in the
\* table; in each failure case the order is unchanged.
C18_Precedence_AsStated ==
    [][ReturnedOp(last', "update") =>
          LET o == last'.call.order_id
              t == last'.call.status
          IN /\ IF o \notin DOMAIN orders
                THEN last'.resp = Failure("ORDER_NOT_FOUND")
                ELSE IF ~Authorized(orders[o], last'.call.caller)
                THEN last'.resp = Failure("ACCESS_DENIED")
                ELSE IF t \notin StatusSet
                THEN last'.resp = Failure("INVALID_STATUS")
                ELSE IF <<orders[o].status, t>> \notin TransitionTable
                THEN last'.resp = Failure("INVALID_STATUS_TRANSITION")
                ELSE TRUE
             /\ ~last'.resp.success => orders' = orders]_vars

\* C18, amended: the checks of UpdateOrderStatus apply in a fixed
\* precedence: ORDER_NOT_FOUND when the order is absent, else ACCESS_DENIED
\* when the caller is neither owner nor admin, else success without any
\* change when the request carries no status (absent or empty), else
\* INVALID_STATUS when the requested status is not one of created,
\* in_progress, completed, cancelled (whatever the current status), else
\* INVALID_STATUS_TRANSITION when the pair is not in the table; in each
\* failure case the order is unchanged.
C18_Precedence ==
    [][ReturnedOp(last', "update") =>
          LET o == last'.call.order_id
              t == last'.call.status
          IN /\ IF o \notin DOMAIN orders
                THEN last'.resp = Failure("ORDER_NOT_FOUND")
                ELSE IF ~Authorized(orders[o], last'.call.caller)
                THEN last'.resp = Failure("ACCESS_DENIED")
                ELSE IF t = ""
                THEN last'.resp.success /\ orders' = orders
                ELSE IF t \notin StatusSet
                THEN last'.resp = Failure("INVALID_STATUS")
                ELSE IF <<orders[o].status, t>> \notin TransitionTable
                THEN last'.resp = Failure("INVALID_STATUS_TRANSITION")
                ELSE TRUE
             /\ ~last'.resp.success => orders' = orders]_vars

\* C18 witness: the owner asked for an unrecognized status on a cancelled
\* order and was told INVALID_STATUS
C18_Witness ==
    /\ ReturnedOp(last, "update")
    /\ last.resp = Failure("INVALID_STATUS")
    /\ last.call.order_id \in DOMAIN orders
    /\ orders[last.call.order_id].status = "cancelled"
    /\ orders[last.call.order_id].user_id = last.call.caller.user_id

\* C19: CancelOrder called by the owner on an order whose status is
\* completed or cancelled returns CANNOT_CANCEL, not
\* INVALID_STATUS_TRANSITION and not success, and leaves status and
\* updated_at as they were.
C19_CannotCancelTerminal ==
    [][ReturnedOp(last', "cancel") =>
          LET o == last'.call.order_id
          IN (/\ o \in DOMAIN orders
              /\ orders[o].user_id = last'.call.caller.user_id
              /\ orders[o].status \in Terminal)
             => /\ last'.resp = Failure("CANNOT_CANCEL")
                /\ orders'[o].status = orders[o].status
                /\ orders'[o].updated_at = orders[o].updated_at]_vars

\* C19 witness: an order was cancelled, nothing was committed since, and
\* its owner's cancellation has failed with CANNOT_CANCEL
C19_Witness ==
    /\ ReturnedOp(last, "cancel")
    /\ last.resp = Failure("CANNOT_CANCEL")
    /\ last.call.order_id \in DOMAIN orders
    /\ orders[last.call.order_id].status = "cancelled"
    /\ orders[last.call.order_id].user_id = last.call.caller.user_id
    /\ orders[last.call.order_id].updated_at = clock

\* C20: for the owner of an order, CancelOrder and UpdateOrderStatus to
\* cancelled are equivalent on every store state: whenever one of them
\* returns, the checks of the other, run on the store the call started
\* from, decide the same way; a success leaves the store that the UPDATE of
\* the other would leave, a failure leaves the store as it was, and the
\* failure code is CANNOT_CANCEL for the one and INVALID_STATUS_TRANSITION
\* for the other.
C20_CancelEquivalentToUpdate ==
    [][LET o == last'.call.order_id
           caller == last'.call.caller
       IN /\ (/\ ReturnedOp(last', "cancel")
              /\ o \in DOMAIN orders
              /\ orders[o].user_id = caller.user_id)
             => LET u == update_order_validate(SelectOrder(orders, o), caller, "cancelled")
                IN IF last'.resp.success
                   THEN /\ u = "write"
                        /\ orders' = UpdateStatus(orders, o, "cancelled", clock')
                   ELSE /\ last'.resp = Failure("CANNOT_CANCEL")
                        /\ u = "INVALID_STATUS_TRANSITION"
                        /\ orders' = orders
          /\ (/\ ReturnedOp(last', "update")
              /\ last'.call.status = "cancelled"
              /\ o \in DOMAIN orders
              /\ orders[o].user_id = caller.user_id)
             => LET v == cancel_order_validate(SelectOrder(orders, o), caller)
                IN IF last'.resp.success
                   THEN /\ v = "write"
                        /\ orders' = UpdateStatus(orders, o, OrderStatus.CANCELLED, clock')
                   ELSE /\ last'.resp = Failure("INVALID_STATUS_TRANSITION")
                        /\ v = "CANNOT_CANCEL"
                        /\ orders' = orders]_vars

\* C20 witness: the owner has cancelled an order in in_progress by an
\* update to cancelled
C20_Witness ==
    /\ ReturnedOp(last, "update")
    /\ last.resp.success
    /\ last.call.status = "cancelled"
    /\ last.call.found[1].status = "in_progress"
    /\ last.call.found[1].user_id = last.call.caller.user_id
    /\ orders[last.call.order_id].status = "cancelled"

\* C21: with updated_at a logical clock value, every successful
\* UpdateOrderStatus that changes the status and every successful
\* CancelOrder sets the order's updated_at to a new, later value, and every
\* failed call, whatever its error code, leaves updated_at and created_at
\* of every order unchanged.
C21_UpdatedAt ==
    [][last' # NoEvent =>
          LET o == last'.call.order_id
          IN /\ (/\ last'.resp.success
                 /\ last'.call.op = "update"
                 /\ orders'[o].status # orders[o].status)
                => orders'[o].updated_at > orders[o].updated_at
             /\ (last'.resp.success /\ last'.call.op = "cancel")
                => orders'[o].updated_at > orders[o].updated_at
             /\ ~last'.resp.success
                => /\ DOMAIN orders' = DOMAIN orders
                   /\ \A x \in DOMAIN orders :
                         /\ orders'[x].updated_at = orders[x].updated_at
                         /\ orders'[x].created_at = orders[x].created_at]_vars

\* C21 witness: the owner has completed an order; its updated_at is the
\* time of that commit and later than its creation
C21_Witness ==
    /\ ReturnedOp(last, "update")
    /\ last.resp.success
    /\ last.call.status = "completed"
    /\ last.call.caller.user_id = orders[last.call.order_id].user_id
    /\ orders[last.call.order_id].updated_at = clock
    /\ orders[last.call.order_id].updated_at > last.call.found[1].updated_at
    /\ last.call.found[1].updated_at > orders[last.call.order_id].created_at

\* C22: orders are never physically deleted: the stored ids of a state
\* contain the stored ids of every earlier state; a successful CancelOrder
\* keeps the record and only sets its status to cancelled (and its
\* updated_at), and GetOrder still returns a cancelled order to its owner.
C22_NeverDeleted ==
    [][/\ DOMAIN orders \subseteq DOMAIN orders'
       /\ (ReturnedOp(last', "cancel") /\ last'.resp.success)
          => LET o == last'.call.order_id
             IN /\ o \in DOMAIN orders'
                /\ orders'[o] = [orders[o] EXCEPT !.status = "cancelled",
                                                  !.updated_at = orders'[o].updated_at]
       /\ ReturnedOp(last', "get")
          => LET o == last'.call.order_id
             IN (/\ o \in DOMAIN orders
                 /\ orders[o].status = "cancelled"
                 /\ orders[o].user_id = last'.call.caller.user_id)
                => /\ last'.resp.success
                   /\ last'.resp.orders = <<orders[o]>>]_vars

\* C22 witness: the owner has read an order after cancelling it
C22_Witness ==
    /\ ReturnedOp(last, "get")
    /\ last.resp.success
    /\ last.resp.orders[1].status = "cancelled"
    /\ last.resp.orders[1].user_id = last.call.caller.user_id
    /\ last.call.caller.role = "client"

\* C23: GetOrder and ListOrders have no side effects: for every caller and
\* every argument, whether the call succeeds or fails, no step of the call
\* (the SELECT of GetOrder, the page query and the count query of
\* ListOrders) changes the set of orders or a field of an order.
C23_ReadsHaveNoEffect ==
    [][(\/ ReturnedOp(last', "get")
        \/ ReturnedOp(last', "list")
        \/ calls'[Worker].op = "list"
        \/ calls[Worker].op = "list")
       => orders' = orders]_vars

\* C23 witness: a listing failed at its count query while the store held an
\* order whose status had been changed
C23_Witness ==
    /\ ReturnedOp(last, "list")
    /\ last.resp = Failure("DATABASE_ERROR")
    /\ last.call.found # << >>
    /\ \E o \in DOMAIN orders : orders[o].updated_at > orders[o].created_at

\* the number of edges of the transition graph that lead to a status: the
\* longest path from created to it
Rank(status) ==
    CASE status = "created" -> 0
      [] status = "in_progress" -> 1
      [] OTHER -> 2

\* C24: in every sequential execution the statuses an order takes start at
\* created and form a path of the transition graph: a new order is in
\* created, every change of a stored status is an edge of the table and
\* leads further away from created, where no status is further than two
\* edges, so an order undergoes at most two successful status changes.  On
\* the path of the scenario: an update of an in_progress order to created
\* fails INVALID_STATUS_TRANSITION, a cancel of it by the owner succeeds and
\* leaves it cancelled, and an update of a cancelled order to completed
\* fails and leaves it cancelled.
C24_LifecyclePath ==
    [][/\ \A o \in DOMAIN orders' \ DOMAIN orders : orders'[o].status = "created"
       /\ \A o \in DOMAIN orders :
             /\ o \in DOMAIN orders'
             /\ Rank(orders'[o].status) <= 2
             /\ orders'[o].status # orders[o].status
                => /\ <<orders[o].status, orders'[o].status>> \in TransitionTable
                   /\ Rank(orders'[o].status) > Rank(orders[o].status)
       /\ LET o == last'.call.order_id
              owner == o \in DOMAIN orders /\ orders[o].user_id = last'.call.caller.user_id
          IN /\ (/\ ReturnedOp(last', "update") /\ owner
                 /\ orders[o].status = "in_progress" /\ last'.call.status = "created")
                => /\ last'.resp = Failure("INVALID_STATUS_TRANSITION")
                   /\ orders'[o].status = "in_progress"
             /\ (ReturnedOp(last', "cancel") /\ owner /\ orders[o].status = "in_progress")
                => last'.resp.success /\ orders'[o].status = "cancelled"
             /\ (/\ ReturnedOp(last', "update") /\ owner
                 /\ orders[o].status = "cancelled" /\ last'.call.status = "completed")
                => ~last'.resp.success /\ orders'[o].status = "cancelled"]_vars

\* C24 witness: the end of the scenario: the only order was created, moved
\* to in_progress and cancelled, and its owner's update to completed has
\* failed
C24_Witness ==
    /\ ReturnedOp(last, "update")
    /\ last.resp = Failure("INVALID_STATUS_TRANSITION")
    /\ last.call.status = "completed"
    /\ DOMAIN orders = {1}
    /\ last.call.order_id = 1
    /\ last.call.caller.user_id = orders[1].user_id
    /\ orders[1].status = "cancelled"
    /\ orders[1].created_at = 1
    /\ orders[1].updated_at = 3
    /\ clock = 3

\* C27: an UpdateOrderStatus call by the owner of an existing order or by an
\* admin whose request carries no status (absent or empty) returns success
\* and leaves the order, and every other order, exactly as it was, whatever
\* the current status of the order.
C27_NoStatusNoChange ==
    [][(/\ ReturnedOp(last', "update")
        /\ last'.call.status = ""
        /\ last'.call.order_id \in DOMAIN orders
        /\ Authorized(orders[last'.call.order_id], last'.call.caller))
       => /\ last'.resp.success
          /\ last'.resp = Ok
          /\ orders' = orders
          /\ clock' = clock]_vars

\* C27 witness: an admin who does not own a completed order sent an update
\* without a status and was answered with success
C27_Witness ==
    /\ ReturnedOp(last, "update")
    /\ last.call.status = ""
    /\ last.resp.success
    /\ last.call.caller.role = "admin"
    /\ last.call.order_id \in DOMAIN orders
    /\ orders[last.call.order_id].status = "completed"
    /\ orders[last.call.order_id].user_id # last.call.caller.user_id

\* ------------------------------------------------ lists beside writers
\* two workers: one serves list calls, the other create, update and cancel
\* calls.  A list call runs its page query and its count query as two
\* statements of a READ COMMITTED transaction, so each of them reads what is
\* committed when it runs, and the other worker commits in between.
Lister == 1
Writer == 2

ListRaceNext ==
    \/ \E caller \in Callers, p \in Pages, s \in Sizes, st \in StatusInputs :
          ListOrdersPage(Lister, caller, p, s, st)
    \/ ListOrdersCount(Lister)
    \/ \E caller \in Callers, items \in ItemInputs, t \in TotalInputs :
          CreateOrder(Writer, caller, items, t)
    \/ \E caller \in Callers, o \in OrderIds, st \in StatusInputs :
          UpdateOrderSelect(Writer, caller, o, st)
    \/ UpdateOrderWrite(Writer)
    \/ \E caller \in Callers, o \in OrderIds : CancelOrderSelect(Writer, caller, o)
    \/ CancelOrderWrite(Writer)

ListRaceSpec == Init /\ [][ListRaceNext]_vars

\* C28: in every ListOrders response, also when create, update and cancel
\* calls run beside the list call, the page and the total describe the same
\* filtered set: the response holds no more orders than its total says, and
\* every order it holds is one of the orders the total counts (it is stored
\* as returned and passes the filter of the request).
C28_PageWithinTotal ==
    (ReturnedOp(last, "list") /\ last.resp.success)
    => /\ Len(last.resp.orders) <= last.resp.total
       /\ \A i \in DOMAIN last.resp.orders :
             last.resp.orders[i] \in Filtered(orders, last.call.caller, last.call.status)

\* ------------------------------------------------- a store that is silent
\* get_db() calls psycopg2.connect without connect_timeout and no statement
\* or lock timeout is set on the connection, and every handler calls the
\* driver synchronously: a call whose store call gets no answer waits in
\* that call, and no step of the handler ends the wait.  The connect and
\* the SELECT each handler starts with wait in the same way.
\* The store stops answering while the UPDATE or the commit runs
StoreSilentOnWrite(c) ==
    /\ calls[c].pc \in {"update", "cancel"}
    /\ calls' = [calls EXCEPT ![c].pc = "blocked"]
    /\ last' = NoEvent
    /\ UNCHANGED <<orders, clock>>

\* the connection of a waiting call breaks: the driver raises, and the call
\* leaves through its except branch with a rollback on the lost connection
StoreConnectionBreaks(c) ==
    /\ calls[c].pc = "blocked"
    /\ last' = Raised(calls[c], "write", except_rollback("write", "lost"))
    /\ calls' = [calls EXCEPT ![c] = Idle]
    /\ UNCHANGED <<orders, clock>>

SilentNext ==
    \/ Next
    \/ \E c \in Calls : StoreSilentOnWrite(c)
    \/ \E c \in Calls : StoreConnectionBreaks(c)

\* a worker runs its handler on: while the store answers, the statement a
\* call has reached is executed.  Nothing obliges a store that has stopped
\* answering to break the connection.
SilentFairness ==
    \A c \in Calls : WF_vars(UpdateOrderWrite(c)) /\ WF_vars(CancelOrderWrite(c))

SilentSpec == Init /\ [][SilentNext]_vars /\ SilentFairness

\* C25: no operation blocks indefinitely: under fair scheduling every
\* started call eventually returns a response, also with concurrent calls
\* on the same order and also when the store stops answering (the call then
\* returns DATABASE_ERROR once the bounded timeout of its store call has
\* expired).
C25_EveryCallReturns ==
    \A c \in Calls : (calls[c].pc # "ready") ~> (calls[c].pc = "ready")

\* ------------------------------------------------------------ the gateway
\* api_gateway: every orders endpoint depends on get_current_user and hands
\* the request to the orders service through handle_proxy_request, which
\* waits for the answer of the service and returns its JSON body.
Gateway == 2

\* a bearer token: the claims it carries, and whether jwt.decode accepts it
\* (signed with SECRET_KEY and not expired).  NoPayload stands for None and
\* for an empty claim set: `if not payload` takes both the same way.
NoPayload == NoCaller
Tokens == [payload : Callers \cup {NoPayload}, signed : BOOLEAN]

\* verify_token: the payload, or None on JWTError
verify_token(token) == IF token.signed THEN token.payload ELSE NoPayload

get_current_user_open(token) == "ok"

\* get_current_user: HTTPException(401) unless verify_token returns a payload
get_current_user(token) ==
    IF verify_token(token) = NoPayload THEN "401" ELSE "ok"

\* HTTPException(401, "Invalid authentication credentials")
Unauthorized == Response(FALSE, "UNAUTHORIZED", 0, << >>, 0)
\* HTTPException(500, "Internal gateway error")
InternalGatewayError == Response(FALSE, "INTERNAL_GATEWAY_ERROR", 0, << >>, 0)

\* a request at the gateway: endpoint, Authorization header, path parameter
\* and body
Request(pc, op, token, order_id, status, items, total_amount) ==
    [pc |-> pc, op |-> op, token |-> token, order_id |-> order_id,
     status |-> status, items |-> items, total_amount |-> total_amount]

\* proxy_request passes data to httpx as json=data; order_data.dict() keeps
\* the product_id of every item as a uuid.UUID, which the JSON encoder
\* refuses: the TypeError is caught by `except Exception`
proxy_request_encodes(req) == req.op = "create" => req.items = << >>

\* a gateway endpoint up to the forward: the dependency, then proxy_request
handle_proxy_request(req) ==
    /\ Ready(Gateway)
    /\ Ready(Worker)
    /\ Sent
    /\ IF get_current_user(req.token) = "401"
       THEN /\ last' = Returned(req, Unauthorized)
            /\ UNCHANGED calls
       ELSE IF ~proxy_request_encodes(req)
       THEN /\ last' = Returned(req, InternalGatewayError)
            /\ UNCHANGED calls
       ELSE /\ calls' = [calls EXCEPT ![Gateway] = [req EXCEPT !.pc = "forward"]]
            /\ last' = NoEvent
    /\ UNCHANGED <<orders, clock>>

gateway_orders_create(token, items, total_amount) ==
    handle_proxy_request(Request("ready", "create", token, 0, "", items, total_amount))

gateway_orders_get(token, order_id) ==
    handle_proxy_request(Request("ready", "get", token, order_id, "", << >>, 0))

\* the target URL is v1/orders without the query string: the service
\* applies its defaults page = 1, size = 10 and no status
gateway_orders_list(token) ==
    handle_proxy_request(Request("ready", "list", token, 0, "", << >>, 0))

gateway_orders_update(token, order_id, status) ==
    handle_proxy_request(Request("ready", "update", token, order_id, status, << >>, 0))

gateway_orders_cancel(token, order_id) ==
    handle_proxy_request(Request("ready", "cancel", token, order_id, "", << >>, 0))

\* the orders service receives the forwarded request: its own
\* get_current_user verifies the token of the forwarded Authorization
\* header, then the handler of the endpoint runs to its first statement
ServiceReceives ==
    /\ calls[Gateway].pc = "forward"
    /\ Ready(Worker)
    /\ Sent
    /\ LET req == calls[Gateway]
           current_user == verify_token(req.token)
       IN IF current_user = NoPayload
          THEN /\ last' = Returned(Call("ready", req.op, NoCaller, req.order_id,
                                        req.status, 0, 0, << >>), Unauthorized)
               /\ UNCHANGED <<orders, clock, calls>>
          ELSE CASE req.op = "create" ->
                      CreateOrder(Worker, current_user, req.items, req.total_amount)
                 [] req.op = "get" -> GetOrder(Worker, current_user, req.order_id)
                 [] req.op = "list" -> ListOrdersPage(Worker, current_user, 1, 10, "")
                 [] req.op = "update" ->
                      UpdateOrderSelect(Worker, current_user, req.order_id, req.status)
                 [] req.op = "cancel" ->
                      CancelOrderSelect(Worker, current_user, req.order_id)

\* return response.json(): the answer of the service goes back to the client
GatewayResponds ==
    /\ calls[Gateway].pc = "forward"
    /\ ~Sent
    /\ calls' = [calls EXCEPT ![Gateway] = Idle]
    /\ last' = NoEvent
    /\ UNCHANGED <<orders, clock>>

\* the answer of the gateway itself (401, 500) goes out
GatewayAnswers == Ready(Gateway) /\ SendResponse

GatewayItemInputs == {<< >>, <<[quantity |-> 1, price |-> 0]>>}

GatewayNext ==
    \/ \E token \in Tokens, items \in GatewayItemInputs, t \in TotalInputs :
          gateway_orders_create(token, items, t)
    \/ \E token \in Tokens, o \in OrderIds : gateway_orders_get(token, o)
    \/ \E token \in Tokens : gateway_orders_list(token)
    \/ \E token \in Tokens, o \in OrderIds, st \in StatusInputs :
          gateway_orders_update(token, o, st)
    \/ \E token \in Tokens, o \in OrderIds : gateway_orders_cancel(token, o)
    \/ ServiceReceives
    \/ ListOrdersCount(Worker)
    \/ UpdateOrderWrite(Worker)
    \/ CancelOrderWrite(Worker)
    \/ GatewayResponds
    \/ GatewayAnswers

GatewaySpec == Init /\ [][GatewayNext]_vars

\* C26: the gateway forwards a request on an orders endpoint only after its
\* bearer token has been verified: the request in flight to the service
\* carries a token that verifies, and the service works (a call of it
\* proceeds, an order changes) only on such a request.  A request whose
\* token does not verify is answered with 401 on every orders endpoint and
\* is never forwarded, so the orders and the calls of the service stay as
\* they were.
C26_VerifiedBeforeForward ==
    [][/\ calls'[Gateway].pc = "forward" => calls'[Gateway].token.signed
       /\ (orders' # orders \/ calls'[Worker] # calls[Worker])
          => calls[Gateway].pc = "forward" /\ calls[Gateway].token.signed
       /\ \A token \in {k \in Tokens : ~k.signed} :
             LET Refused == /\ last'.resp = Unauthorized
                            /\ UNCHANGED <<orders, clock, calls>>
             IN /\ \A items \in GatewayItemInputs, t \in TotalInputs :
                      gateway_orders_create(token, items, t) => Refused
                /\ \A o \in OrderIds : gateway_orders_get(token, o) => Refused
                /\ gateway_orders_list(token) => Refused
                /\ \A o \in OrderIds, st \in StatusInputs :
                      gateway_orders_update(token, o, st) => Refused
                /\ \A o \in OrderIds : gateway_orders_cancel(token, o) => Refused]_vars

\* C26 witness: a token that does not verify and claims the admin role came
\* with a cancel request for a stored order in created; the gateway answered
\* 401 and nothing is in flight to the service
C26_Witness ==
    /\ last.resp = Unauthorized
    /\ last.call.op = "cancel"
    /\ ~last.call.token.signed
    /\ last.call.token.payload.role = "admin"
    /\ last.call.order_id \in DOMAIN orders
    /\ orders[last.call.order_id].status = "created"
    /\ Quiet

====
